---- MODULE Spec2Model ----
(***************************************************************************)
(* The consolidation graph engine of record_consolidation/graphs.py:       *)
(* rows -> co-occurrence graph -> connected components -> canonicals ->    *)
(* consolidation mapping / field-value lookup.                             *)
(***************************************************************************)
EXTENDS Integers, Sequences, FiniteSets, TLC

\* Number of rows of the input DataFrame.
MaxRows == 3

\* df.columns, in column order.
Fields == <<"cusip", "figi">>
FieldSet == {Fields[i] : i \in DOMAIN Fields}

\* Python's None (a null cell).
None == "<None>"

\* The cells a column may hold: literals, and the blanks that stand for null.
\* The literal "A" occurs in both columns.
Values == {"A", "B", "X"}
CellsOf(field) ==
    IF field = "cusip" THEN {"A", "B", "", None} ELSE {"A", "X", "N/A", None}
Rows == {row \in [FieldSet -> Values \cup {"", "N/A", None}] :
            \A f \in FieldSet : row[f] \in CellsOf(f)}

\* The empty attribute dict of an edge added without weights.
EmptyDict == <<>>

VARIABLES
    df,             \* the rows of the input DataFrame consumed so far (raw cells)
    weight_edges,   \* the weight_edges argument
    G_nodes,        \* G.nodes: value -> [field, count]
    G_edges,        \* G.edges: {value1, value2} -> attribute dict
    pc,             \* where the program is
    parts,          \* the node sets returned by extract_connected_subgraphs
    todo,           \* the components the assembler's loop has not visited yet
    subg,           \* the nodes of the component in hand, in iteration order
    canonical,      \* the canonicals computed for the component in hand
    mapping         \* overall_consolidations / mapping, the assembler's result

vars == <<df, weight_edges, G_nodes, G_edges, pc, parts, todo, subg, canonical, mapping>>

----------------------------------------------------------------------------
\* Graph Builder

\* df.with_columns(pl.col(pl.String).replace(["", "N/A"], None))
Normalize(v) == IF v \in {"", "N/A"} THEN None ELSE v

\* row = {k: v for k, v in row.items() if v is not None}, as (field, value) items
RowItems(row) ==
    SelectSeq([i \in DOMAIN Fields |-> <<Fields[i], Normalize(row[Fields[i]])>>],
              LAMBDA it : it[2] # None)

\* AddNodes without the seen_values test: one increment per occurrence.
RECURSIVE AddNodesPerOccurrence(_, _, _)
AddNodesPerOccurrence(nodes, seen_values, items) ==
    IF items = <<>> THEN nodes
    ELSE LET field == Head(items)[1]
             value == Head(items)[2]
         IN  AddNodesPerOccurrence(IF value \notin DOMAIN nodes
                                   THEN nodes @@ (value :> [field |-> field, count |-> 1])
                                   ELSE [nodes EXCEPT ![value].count = @ + 1],
                                   seen_values \cup {value}, Tail(items))

\* The node loop of one row: a value not yet seen in this row creates its node
\* (with the field it is met under) or increments the node's count.
RECURSIVE AddNodes(_, _, _)
AddNodes(nodes, seen_values, items) ==
    IF items = <<>> THEN nodes
    ELSE LET field == Head(items)[1]
             value == Head(items)[2]
         IN  IF value \in seen_values
             THEN AddNodes(nodes, seen_values, Tail(items))
             ELSE AddNodes(IF value \notin DOMAIN nodes
                           THEN nodes @@ (value :> [field |-> field, count |-> 1])
                           ELSE [nodes EXCEPT ![value].count = @ + 1],
                           seen_values \cup {value}, Tail(items))

\* itertools.combinations(items, r=2), in its lexicographic order
RECURSIVE Combinations(_)
Combinations(items) ==
    IF Len(items) < 2 THEN <<>>
    ELSE [k \in 1..(Len(items) - 1) |-> <<items[1], items[k + 1]>>]
         \o Combinations(Tail(items))

\* The edge loop of one row.
RECURSIVE AddEdges(_, _, _)
AddEdges(edges, pairs, weighted) ==
    IF pairs = <<>> THEN edges
    ELSE LET field1 == Head(pairs)[1][1]
             value1 == Head(pairs)[1][2]
             field2 == Head(pairs)[2][1]
             value2 == Head(pairs)[2][2]
             e == {value1, value2}
             next == IF weighted
                     THEN IF e \in DOMAIN edges
                          THEN [edges EXCEPT ![e].count = @ + 1]
                          ELSE edges @@ (e :> [count |-> 1, fields |-> {field1, field2}])
                     ELSE IF e \in DOMAIN edges
                          THEN edges
                          ELSE edges @@ (e :> EmptyDict)
         IN  AddEdges(next, Tail(pairs), weighted)

Init ==
    /\ df = <<>>
    /\ weight_edges \in BOOLEAN
    /\ G_nodes = <<>>
    /\ G_edges = <<>>
    /\ pc = "build"
    /\ parts = {}
    /\ todo = {}
    /\ subg = <<>>
    /\ canonical = <<>>
    /\ mapping = <<>>

\* One iteration of `for row in df.rows(named=True)`.
AddRow ==
    /\ pc = "build"
    /\ Len(df) < MaxRows
    /\ \E row \in Rows :
          /\ df' = Append(df, row)
          /\ G_nodes' = AddNodes(G_nodes, {}, RowItems(row))
          /\ G_edges' = AddEdges(G_edges, Combinations(RowItems(row)), weight_edges)
    /\ UNCHANGED <<weight_edges, pc, parts, todo, subg, canonical, mapping>>

\* return G
ReturnGraph ==
    /\ pc = "build"
    /\ pc' = "graph"
    /\ UNCHANGED <<df, weight_edges, G_nodes, G_edges, parts, todo, subg, canonical, mapping>>

----------------------------------------------------------------------------
\* Component Partitioner (extract_connected_subgraphs of utils)

\* The nodes reachable from S along the edges E.
RECURSIVE Reachable(_, _)
Reachable(S, E) ==
    LET T == S \cup {m \in UNION E : \E e \in E : m \in e /\ e \cap S # {}}
    IN  IF T = S THEN S ELSE Reachable(T, E)

\* A partitioner that stops after one hop: every node with its neighbours.
NeighbourhoodSubgraphs(nodes, edges) ==
    {{n} \cup {m \in DOMAIN nodes : {n, m} \in DOMAIN edges} : n \in DOMAIN nodes}

\* The node sets of the maximal connected components.
ExtractConnectedSubgraphs(nodes, edges) ==
    {Reachable({n}, DOMAIN edges) : n \in DOMAIN nodes}

\* The orders in which the nodes of a component may be iterated (g.nodes).
NodeOrders(C) ==
    {s \in [1..Cardinality(C) -> C] : \A i, j \in DOMAIN s : i # j => s[i] # s[j]}

----------------------------------------------------------------------------
\* Canonical Selector

\* MaxN with the comparison reversed: the first node of least count.
RECURSIVE MinN(_, _)
MinN(respective_nodes, nodes) ==
    IF Len(respective_nodes) = 1 THEN respective_nodes[1]
    ELSE LET best == MinN(SubSeq(respective_nodes, 1, Len(respective_nodes) - 1), nodes)
             last == respective_nodes[Len(respective_nodes)]
         IN  IF nodes[last].count < nodes[best].count THEN last ELSE best

\* max(respective_nodes, key=count): the first node of greatest count.
RECURSIVE MaxN(_, _)
MaxN(respective_nodes, nodes) ==
    IF Len(respective_nodes) = 1 THEN respective_nodes[1]
    ELSE LET best == MaxN(SubSeq(respective_nodes, 1, Len(respective_nodes) - 1), nodes)
             last == respective_nodes[Len(respective_nodes)]
         IN  IF nodes[last].count > nodes[best].count THEN last ELSE best

\* respective_nodes = [n for n in g.nodes if g.nodes[n]["field"] == field]
RespectiveNodes(g, nodes, field) ==
    SelectSeq(g, LAMBDA n : nodes[n].field = field)

\* fields = {v["field"] for v in g.nodes.values()}
FieldsOf(g, nodes) == {nodes[g[i]].field : i \in DOMAIN g}

\* ExtractCanonicals without the filter on the field: the maximum over all nodes.
ExtractCanonicalsAnyField(g, nodes) ==
    [field \in FieldsOf(g, nodes) |-> MaxN(g, nodes)]

\* _extract_canonicals_from_subgraph(g, "max_n"); g is the component's node order
ExtractCanonicals(g, nodes) ==
    [field \in FieldsOf(g, nodes) |-> MaxN(RespectiveNodes(g, nodes, field), nodes)]

----------------------------------------------------------------------------
\* Mapping Assembler

\* The loop over respective_nodes: a node met twice raises ValueError.
RECURSIVE MapField(_, _, _)
MapField(mapping_for_this_field, respective_nodes, canon) ==
    IF respective_nodes = <<>> THEN [err |-> FALSE, map |-> mapping_for_this_field]
    ELSE LET node == Head(respective_nodes)
         IN  IF node \in DOMAIN mapping_for_this_field
             THEN [err |-> TRUE, map |-> mapping_for_this_field]
             ELSE MapField(mapping_for_this_field @@ (node :> canon),
                           Tail(respective_nodes), canon)

\* _extract_consolidation_mapping_from_subgraph, given the canonicals of line 116
ExtractMappingFromSubgraph(g, nodes, canonicals) ==
    LET per == [field \in FieldsOf(g, nodes) |->
                   MapField(<<>>, RespectiveNodes(g, nodes, field), canonicals[field])]
    IN  [err |-> \E field \in DOMAIN per : per[field].err,
         map |-> [field \in DOMAIN per |-> per[field].map]]

\* UpdateOverall with an assignment in place of update(): the field's
\* earlier entries are dropped.
AssignOverall(overall, consolidation_mapping) ==
    [field \in DOMAIN overall \cup DOMAIN consolidation_mapping |->
        IF field \notin DOMAIN consolidation_mapping THEN overall[field]
        ELSE consolidation_mapping[field]]

\* overall_consolidations[field].update(field_mapping), for every field
UpdateOverall(overall, consolidation_mapping) ==
    [field \in DOMAIN overall \cup DOMAIN consolidation_mapping |->
        IF field \notin DOMAIN consolidation_mapping THEN overall[field]
        ELSE IF field \notin DOMAIN overall THEN consolidation_mapping[field]
        ELSE consolidation_mapping[field] @@ overall[field]]

\* The inner loop of the lookup: every node of G not yet in mapping[field]
\* gets the canonical record in hand.
FillLookup(lookup, nodes, canon) ==
    [field \in DOMAIN lookup |->
        lookup[field] @@
        [value \in {n \in DOMAIN nodes :
                       nodes[n].field = field /\ n \notin DOMAIN lookup[field]} |-> canon]]

\* extract_consolidation_mapping_from_graph(g): overall_consolidations = defaultdict(dict)
StartConsolidation ==
    /\ pc = "graph"
    /\ parts' = ExtractConnectedSubgraphs(G_nodes, G_edges)
    /\ todo' = parts'
    /\ mapping' = <<>>
    /\ pc' = "consol"
    /\ UNCHANGED <<df, weight_edges, G_nodes, G_edges, subg, canonical>>

\* One iteration of `for subg in extract_connected_subgraphs(g)`.
ConsolidateSubgraph ==
    /\ pc = "consol"
    /\ \E C \in todo : \E g \in NodeOrders(C) :
          LET canonicals == ExtractCanonicals(g, G_nodes)
              r == ExtractMappingFromSubgraph(g, G_nodes, canonicals)
          IN  /\ subg' = g
              /\ canonical' = canonicals
              /\ todo' = todo \ {C}
              /\ IF r.err
                 THEN pc' = "error" /\ mapping' = mapping
                 ELSE pc' = pc /\ mapping' = UpdateOverall(mapping, r.map)
    /\ UNCHANGED <<df, weight_edges, G_nodes, G_edges, parts>>

\* return overall_consolidations
ReturnConsolidation ==
    /\ pc = "consol"
    /\ todo = {}
    /\ pc' = "consol_done"
    /\ UNCHANGED <<df, weight_edges, G_nodes, G_edges, parts, todo, subg, canonical, mapping>>

\* _create_field_val_to_canonical_lookup(df): the graph is built without weights
StartLookup ==
    /\ pc = "graph"
    /\ ~weight_edges
    /\ parts' = ExtractConnectedSubgraphs(G_nodes, G_edges)
    /\ todo' = parts'
    /\ mapping' = [field \in FieldSet |-> <<>>]
    /\ pc' = "lookup"
    /\ UNCHANGED <<df, weight_edges, G_nodes, G_edges, subg, canonical>>

\* One iteration of `for subg in extract_connected_subgraphs(G)`.
LookupSubgraph ==
    /\ pc = "lookup"
    /\ \E C \in todo : \E g \in NodeOrders(C) :
          /\ subg' = g
          /\ canonical' = ExtractCanonicals(g, G_nodes)
          /\ todo' = todo \ {C}
          /\ mapping' = FillLookup(mapping, G_nodes, canonical')
    /\ UNCHANGED <<df, weight_edges, G_nodes, G_edges, pc, parts>>

\* return mapping
ReturnLookup ==
    /\ pc = "lookup"
    /\ todo = {}
    /\ pc' = "lookup_done"
    /\ UNCHANGED <<df, weight_edges, G_nodes, G_edges, parts, todo, subg, canonical, mapping>>

Next ==
    \/ AddRow
    \/ ReturnGraph
    \/ StartConsolidation
    \/ ConsolidateSubgraph
    \/ ReturnConsolidation
    \/ StartLookup
    \/ LookupSubgraph
    \/ ReturnLookup

Spec == Init /\ [][Next]_vars

----------------------------------------------------------------------------
\* The partitioner's result taken as an input of the assembler: the true
\* components and one more node set, which overlaps them.
StartConsolidationOverlapping ==
    /\ pc = "graph"
    /\ \E extra \in (SUBSET DOMAIN G_nodes) \ {{}} :
          parts' = ExtractConnectedSubgraphs(G_nodes, G_edges) \cup {extra}
    /\ todo' = parts'
    /\ mapping' = <<>>
    /\ pc' = "consol"
    /\ UNCHANGED <<df, weight_edges, G_nodes, G_edges, subg, canonical>>

NextOverlap ==
    \/ AddRow
    \/ ReturnGraph
    \/ StartConsolidationOverlapping
    \/ ConsolidateSubgraph
    \/ ReturnConsolidation

SpecOverlap == Init /\ [][NextOverlap]_vars

----------------------------------------------------------------------------
\* Properties

Range(s) == {s[i] : i \in DOMAIN s}

\* The nodes of field f in the node set C.
NodesOfField(C, f) == {n \in C : G_nodes[n].field = f}

\* c is a node of C of field f whose count no other such node exceeds.
IsMaxCount(c, C, f) ==
    /\ c \in NodesOfField(C, f)
    /\ \A n \in NodesOfField(C, f) : G_nodes[c].count >= G_nodes[n].count

\* The number of rows consumed so far in which the literal v fills a cell.
RowsWith(v) == Cardinality({i \in DOMAIN df : \E f \in FieldSet : df[i][f] = v})

\* C1: once a component has been consolidated, every node of it of field f
\* is a key of mapping[f] and maps to one canonical value of the component
\* for f; at the end every node of the graph is a key under its own field.
C1_ComponentMapsToOneCanonical ==
    pc \in {"consol", "consol_done"} =>
        /\ \A C \in parts \ todo : \A f \in FieldSet :
              NodesOfField(C, f) # {} =>
                  /\ f \in DOMAIN mapping
                  /\ \E c \in NodesOfField(C, f) :
                        /\ IsMaxCount(c, C, f)
                        /\ \A n \in NodesOfField(C, f) :
                              n \in DOMAIN mapping[f] /\ mapping[f][n] = c
        /\ pc = "consol_done" =>
              \A n \in DOMAIN G_nodes :
                  /\ G_nodes[n].field \in DOMAIN mapping
                  /\ n \in DOMAIN mapping[G_nodes[n].field]

\* Two cusips joined through a shared figi map to the same canonical cusip.
C1_Witness ==
    /\ pc = "consol_done"
    /\ DOMAIN G_nodes = {"A", "B", "X"}
    /\ G_nodes["A"].field = "cusip" /\ G_nodes["B"].field = "cusip"
    /\ G_nodes["X"].field = "figi"
    /\ parts = {{"A", "B", "X"}}
    /\ {"A", "B"} \notin DOMAIN G_edges
    /\ mapping["cusip"]["A"] = mapping["cusip"]["B"]

\* C2: in the finished lookup, every node's entry under its field is a
\* canonical record of the component that contains the node, with one entry
\* for every field present in that component.
C2_LookupIsOwningComponentsRecord ==
    pc = "lookup_done" =>
        \A C \in parts : \A n \in C :
            LET f == G_nodes[n].field
            IN  /\ n \in DOMAIN mapping[f]
                /\ DOMAIN mapping[f][n] = {g \in FieldSet : NodesOfField(C, g) # {}}
                /\ \A g \in DOMAIN mapping[f][n] : IsMaxCount(mapping[f][n][g], C, g)

\* C3: the canonicals of the component in hand have one entry per field
\* present in it, each a node of the component of that field whose count no
\* other node of the field exceeds.
C3_CanonicalIsMaxCountMember ==
    subg # <<>> =>
        /\ Range(subg) \in parts
        /\ DOMAIN canonical = {f \in FieldSet : NodesOfField(Range(subg), f) # {}}
        /\ \A f \in DOMAIN canonical : IsMaxCount(canonical[f], Range(subg), f)

\* A of count 2 wins over B of count 1, though B is iterated first.
C3_Witness ==
    /\ subg # <<>>
    /\ subg[1] = "B"
    /\ {"A", "B"} \subseteq Range(subg)
    /\ G_nodes["A"].field = "cusip" /\ G_nodes["B"].field = "cusip"
    /\ G_nodes["A"].count = 2 /\ G_nodes["B"].count = 1
    /\ canonical["cusip"] = "A"

\* C4: the components the assemblers iterate are pairwise disjoint, cover
\* the nodes of the graph, and hold a node without neighbours on its own.
C4_PartitionProperty ==
    pc \in {"consol", "consol_done", "lookup", "lookup_done"} =>
        /\ UNION parts = DOMAIN G_nodes
        /\ \A C, D \in parts : C # D => C \cap D = {}
        /\ \A C \in parts : C # {}
        /\ todo \subseteq parts
        /\ \A n \in DOMAIN G_nodes :
              (\A e \in DOMAIN G_edges : n \in e => e = {n}) => {n} \in parts

\* A graph of two components, one of them a node without edges.
C4_Witness ==
    /\ pc = "consol"
    /\ parts = {{"A"}, {"B", "X"}}
    /\ \A e \in DOMAIN G_edges : "A" \notin e

C6_CanonicalIndependentOfOrder ==
    subg # <<>> =>
        \A g \in NodeOrders(Range(subg)) : ExtractCanonicals(g, G_nodes) = canonical

\* C7: the consolidation mapping is idempotent: a canonical value is a key
\* of its field's mapping and maps to itself.
C7_MappingIdempotent ==
    pc \in {"consol", "consol_done"} =>
        \A f \in DOMAIN mapping : \A v \in DOMAIN mapping[f] :
            /\ mapping[f][v] \in DOMAIN mapping[f]
            /\ mapping[f][mapping[f][v]] = mapping[f][v]

\* A raw value that is rewritten to another one, which maps to itself.
C7_Witness ==
    /\ pc = "consol_done"
    /\ "cusip" \in DOMAIN mapping
    /\ {"A", "B"} \subseteq DOMAIN mapping["cusip"]
    /\ mapping["cusip"]["A"] = "B"
    /\ mapping["cusip"]["B"] = "B"

\* C8: a literal is a node exactly when some consumed row holds it, and its
\* count is the number of such rows; a blank cell is never a node; every
\* edge comes from a row with two non-null cells.
C8_CountIsRowsWithValue ==
    /\ DOMAIN G_nodes \subseteq Values
    /\ \A v \in Values :
          IF RowsWith(v) = 0 THEN v \notin DOMAIN G_nodes
          ELSE v \in DOMAIN G_nodes /\ G_nodes[v].count = RowsWith(v)
    /\ \A e \in DOMAIN G_edges :
          \E i \in DOMAIN df : \E f1, f2 \in FieldSet :
              /\ f1 # f2
              /\ df[i][f1] \in Values /\ df[i][f2] \in Values
              /\ e = {df[i][f1], df[i][f2]}

\* A row that repeats a value, a row of blanks, and a row of one value.
C8_Witness ==
    /\ Len(df) = 3
    /\ df[1] = [cusip |-> "A", figi |-> "A"]
    /\ df[2] = [cusip |-> "", figi |-> "N/A"]
    /\ df[3] = [cusip |-> "B", figi |-> None]
    /\ G_nodes["A"].count = 1
    /\ G_nodes["B"].count = 1

\* C9: the graph has no self-loop.
C9_NoSelfLoop ==
    \A e \in DOMAIN G_edges : Cardinality(e) = 2

\* C10: once the consumed rows hold one literal under two different fields,
\* the builder has raised an error.
C10_FieldCollisionSurfaced ==
    (\E i, j \in DOMAIN df : \E f1, f2 \in FieldSet :
        f1 # f2 /\ df[i][f1] \in Values /\ df[i][f1] = df[j][f2])
    => pc = "error"
====
